---- MODULE Spec2Model ----
(***************************************************************************)
(* A model of the raymarcher: the CPU binary (src/src/main.rs), the GPU    *)
(* binary (src/standalone/src/main.rs) and the compute backend it calls    *)
(* (src/vulkan-compute/src/lib.rs).                                        *)
(*                                                                         *)
(* Reals are fixed point.  Distances and depths are counted in units of    *)
(* 0.0001 (so 0.001 is 10, 0.0005 is 5, 0.0001 is 1, 10000.0 is 10^8).      *)
(* Colour components are counted in units of 0.001 (so 1.0 is 1000 and the *)
(* ambient term 0.04 is 40).  Components of a ray direction are counted in *)
(* units of 0.001 as well, rounded to the nearest unit.                    *)
(*                                                                         *)
(* The value of scene(frag_pos) is an input of the marching loops: it is   *)
(* drawn from a small set at each evaluation, so that a property checked   *)
(* here holds for every sequence of scene distances.  cos_theta *          *)
(* attenuation of the shader is an input in the same way.                  *)
(***************************************************************************)
EXTENDS Integers, Sequences, FiniteSets, TLC

VARIABLES
    variant,      \* which binary runs: "cpu" (src/src/main.rs) or "gpu" (standalone)
    dims,         \* the WIDTH and HEIGHT the binary was built with
    pc,           \* position of the host thread
    open, esc,    \* the presentation sink: window open, escape key down
    frames,       \* number of update_with_buffer calls issued
    signalled,    \* history: the sink has been closed or escape has been down
    closedFrames, \* history: update_with_buffer calls issued on a closed window
    x, y,         \* the pixel loops' indices
    buffer,       \* the pixel buffer (buffer in the CPU binary, colors in the GPU one)
    outcome,      \* history: per pixel, how the pixel written last was decided
    depth, i,     \* the CPU marching loop: accumulated depth, loop index
    dist,         \* ... the scene distance evaluated last
    evals,        \* history: scene evaluations of the current marching loop
    sumDist,      \* history: sum of the distances that did not hit
    inputs,       \* GPU binary: the MarchInstruction vector
    data_buffer,  \* compute: the device buffer
    results,      \* GPU binary: the MarchResult vector compute returned
    numGroups,    \* compute: workgroups of the submitted dispatch
    gpu,          \* device: "idle", "running" or "done" (fence signalled)
    pending,      \* device: workgroups not yet started
    wg,           \* device: the running workgroup
    kpc,          \* kernel: position of the running workgroup's invocations
    kdepth, ki,   \* kernel: depth and loop index of each invocation
    kiters,       \* history: loop iterations each invocation has run
    invoked,      \* history: per element, invocations that processed it this dispatch
    hand,         \* history: the handoff steps of the current frame, in order
    cvec, calpha, \* colour packing in isolation: the inputs of from_vec
    c8, cword,    \* ... the U8Color and the packed word
    cpc           \* ... its position

vars == << variant, dims, pc, open, esc, frames, signalled, closedFrames,
           x, y, buffer, outcome, depth, i, dist, evals, sumDist,
           inputs, data_buffer, results, numGroups, gpu, pending, wg,
           kpc, kdepth, ki, kiters, invoked, hand,
           cvec, calpha, c8, cword, cpc >>

hostVars  == << pc, x, y, buffer, outcome >>
sinkVars  == << open, esc, frames, signalled, closedFrames >>
marchVars == << depth, i, dist, evals, sumDist >>
gpuVars   == << inputs, data_buffer, results, numGroups, gpu, pending, wg,
                kpc, kdepth, ki, kiters, invoked, hand >>
colorVars == << cvec, calpha, c8, cword, cpc >>

----------------------------------------------------------------------------
(* Bounds of the model. *)

\* The CPU binary's frame (600 x 600 in the source), scaled down.
WIDTH == 2
HEIGHT == 1
\* The GPU binary's frame (800 x 600 in the source), scaled down to two workgroups.
GPU_WIDTH == 16
GPU_HEIGHT == 8
\* A frame of the GPU binary whose length is not a multiple of the workgroup
\* size: one workgroup and a tail.
TAIL_WIDTH == 10
TAIL_HEIGHT == 7
\* Frames presented before the model stops starting new ones.
MaxFrames == 2

----------------------------------------------------------------------------
(* Program constants. *)

EPSILON == 10              \* 0.001, the CPU binary's hit threshold and first depth
MAX_STEPS == 50            \* the CPU marching loop's step cap
FRAME_MS == 200            \* the CPU binary's frame interval
HOST_EPSILON == 5          \* 0.0005, prelude::EPSILON of the compute crate
GPU_FRAME_MS == 1000       \* the GPU binary's frame interval
LOCAL_SIZE_X == 64         \* the kernel's workgroup size
KERNEL_MAX_STEPS == 50     \* the kernel's iteration count
KERNEL_DEPTH0 == 1         \* 0.0001, the kernel's first depth
KERNEL_NEAR == 10          \* 0.001, lower bound of the kernel's skip test
KERNEL_FAR == 100000000    \* 10000.0, upper bound of the kernel's skip test
ColorScale == 1000         \* units per 1.0 of a colour component
AMBIENT == 40              \* 0.04, the ambient term
ALPHA == 255               \* the alpha byte both binaries pack

----------------------------------------------------------------------------
(* Inputs. *)

\* Values of scene(frag_pos) a marching loop may see: below EPSILON (a hit,
\* also from inside the surface) and at or above it.
SceneDists == { -5, 9, 10, 30, 70 }
\* The values a frame of the CPU binary draws from.
FrameDists == { 9, 30 }
\* The value of cos_theta * attenuation a frame of the CPU binary shades with.
FrameLights == { 500 }
\* Colour components given to from_vec: below 0, in range, above 1.0.
Channels == { -300, -1, 0, 40, 500, 502, 1000, 1004, 2000 }
Alphas == { 0, 128, 255 }

----------------------------------------------------------------------------
(* U8Color *)

TruncDiv(a, b) == IF a >= 0 THEN a \div b ELSE -((-a) \div b)

\* A wrapping conversion: the low byte of the truncated value.
F64AsU8Wrap(v) == TruncDiv(v, ColorScale) % 256

\* `as u8` of an f64 whose value is v / ColorScale: truncation toward zero,
\* saturating at the bounds of u8.
F64AsU8(v) ==
    LET t == TruncDiv(v, ColorScale)
    IN  IF t < 0 THEN 0 ELSE IF t > 255 THEN 255 ELSE t

from_vec(from, a) ==
    [ r |-> F64AsU8(from[1] * 255),
      g |-> F64AsU8(from[2] * 255),
      b |-> F64AsU8(from[3] * 255),
      a |-> a ]

\* A u32 is kept as its two 16-bit halves, [hi, lo]: TLC's integers are 32-bit
\* signed, and 0xFFFF0000 is not one of them.
Half == 65536

\* `as u32` of a u8
U32(n) == [ hi |-> 0, lo |-> n ]

RECURSIVE BitOr16(_, _)
BitOr16(m, n) ==
    IF m = 0 THEN n
    ELSE IF n = 0 THEN m
    ELSE (IF m % 2 = 1 \/ n % 2 = 1 THEN 1 ELSE 0) + 2 * BitOr16(m \div 2, n \div 2)

\* | on u32
BitOr(v, w) == [ hi |-> BitOr16(v.hi, w.hi), lo |-> BitOr16(v.lo, w.lo) ]

\* << on u32, for 0 <= n < 32: bits shifted past bit 31 are lost
Shl(v, n) ==
    IF n >= 16
    THEN [ hi |-> (v.lo * 2^(n - 16)) % Half, lo |-> 0 ]
    ELSE [ hi |-> (((v.hi * 2^n) % Half) + ((v.lo * 2^n) \div Half)) % Half,
           lo |-> (v.lo * 2^n) % Half ]

\* The fields packed in the order r, g, b, a from the low byte up.
as_u32_rgba(c) ==
    BitOr(BitOr(BitOr(U32(c.r), Shl(U32(c.g), 8)), Shl(U32(c.b), 16)), Shl(U32(c.a), 24))

\* as_u32 without the alpha field.
as_u32_noalpha(c) ==
    BitOr(BitOr(U32(c.b), Shl(U32(c.g), 8)), Shl(U32(c.r), 16))

as_u32(c) ==
    BitOr(BitOr(BitOr(U32(c.b), Shl(U32(c.g), 8)), Shl(U32(c.r), 16)), Shl(U32(c.a), 24))

\* 0x000000, the value of a pixel that missed
MISS_VALUE == U32(0)

\* Byte n (0 the least significant) of a u32.
ByteOf(w, n) ==
    IF n = 0 THEN w.lo % 256
    ELSE IF n = 1 THEN w.lo \div 256
    ELSE IF n = 2 THEN w.hi % 256
    ELSE w.hi \div 256

----------------------------------------------------------------------------
(* Values of the variables a run does not use. *)

EmptyVec == [ k \in {} |-> 0 ]

MarchIdle ==
    depth = 0 /\ i = 0 /\ dist = 0 /\ evals = 0 /\ sumDist = 0

GpuIdle ==
    /\ inputs = EmptyVec /\ data_buffer = EmptyVec /\ results = EmptyVec
    /\ invoked = EmptyVec
    /\ numGroups = 0 /\ gpu = "idle" /\ pending = {} /\ wg = 0
    /\ kpc = "off" /\ kdepth = EmptyVec /\ ki = EmptyVec /\ kiters = EmptyVec
    /\ hand = << >>

ColorIdle ==
    /\ cvec = << 0, 0, 0 >> /\ calpha = 0
    /\ c8 = [ r |-> 0, g |-> 0, b |-> 0, a |-> 0 ] /\ cword = U32(0) /\ cpc = "off"

SinkInit ==
    /\ open = TRUE /\ esc = FALSE /\ frames = 0
    /\ signalled = FALSE /\ closedFrames = 0

----------------------------------------------------------------------------
(* Colour packing in isolation: from_vec, then as_u32, on drawn inputs. *)

InitColor ==
    /\ variant = "none" /\ dims = << 0, 0 >> /\ pc = "off" /\ x = 0 /\ y = 0
    /\ buffer = EmptyVec /\ outcome = EmptyVec
    /\ SinkInit /\ MarchIdle /\ GpuIdle
    /\ cvec \in Channels \X Channels \X Channels
    /\ calpha \in Alphas
    /\ c8 = [ r |-> 0, g |-> 0, b |-> 0, a |-> 0 ] /\ cword = U32(0) /\ cpc = "in"

FromVec ==
    /\ cpc = "in"
    /\ c8' = from_vec(cvec, calpha)
    /\ cpc' = "vec"
    /\ UNCHANGED << variant, dims, hostVars, sinkVars, marchVars, gpuVars, cvec, calpha, cword >>

AsU32 ==
    /\ cpc = "vec"
    /\ cword' = as_u32(c8)
    /\ cpc' = "packed"
    /\ UNCHANGED << variant, dims, hostVars, sinkVars, marchVars, gpuVars, cvec, calpha, c8 >>

NextColor == FromVec \/ AsU32

SpecColor == InitColor /\ [][NextColor]_vars

----------------------------------------------------------------------------
(* The render loop both binaries share, and the presentation sink. *)

\* const WIDTH, const HEIGHT of the running binary
W == dims[1]
H == dims[2]

\* The frames the GPU binary is built with: WIDTH * HEIGHT a multiple of the
\* workgroup size, as 800 * 600 is, and not a multiple of it.
GpuFrames == { << GPU_WIDTH, GPU_HEIGHT >>, << TAIL_WIDTH, TAIL_HEIGHT >> }

Interval == IF variant = "gpu" THEN GPU_FRAME_MS ELSE FRAME_MS

\* time.elapsed().as_millis(), as the timer test may read it
Elapsed == { 0, Interval - 1, Interval, Interval + 1 }

Running == pc \notin { "off", "start", "exit", "panic" }

\* The window is closed; it does not open again.
SinkClose ==
    /\ Running /\ open
    /\ open' = FALSE /\ signalled' = TRUE
    /\ UNCHANGED << variant, dims, hostVars, esc, frames, closedFrames,
                    marchVars, gpuVars, colorVars >>

KeyDown ==
    /\ Running /\ ~esc
    /\ esc' = TRUE /\ signalled' = TRUE
    /\ UNCHANGED << variant, dims, hostVars, open, frames, closedFrames,
                    marchVars, gpuVars, colorVars >>

KeyUp ==
    /\ Running /\ esc
    /\ esc' = FALSE
    /\ UNCHANGED << variant, dims, hostVars, open, frames, signalled,
                    closedFrames, marchVars, gpuVars, colorVars >>

\* A loop condition that does not look at the escape key.
LoopConditionOpenOnly(o, e) == o

\* window.is_open() && !window.is_key_down(Key::Escape)
LoopCondition(o, e) == o /\ ~e

\* The head of the while loop; leaving it ends main.
LoopCheck ==
    /\ pc = "check"
    /\ pc' = IF LoopCondition(open, esc) THEN "timer" ELSE "exit"
    /\ UNCHANGED << variant, dims, x, y, buffer, outcome, sinkVars, marchVars, gpuVars,
                    colorVars >>

\* if time.elapsed().as_millis() < interval { continue; }
TimerSpin ==
    /\ pc = "timer"
    /\ { ms \in Elapsed : ms < Interval } # {}
    /\ pc' = "check"
    /\ UNCHANGED << variant, dims, x, y, buffer, outcome, sinkVars, marchVars, gpuVars,
                    colorVars >>

\* The timer has run out: time = now, and the frame begins.  The GPU binary
\* allocates its instruction vector here.
FrameStart ==
    /\ pc = "timer"
    /\ { ms \in Elapsed : ~(ms < Interval) } # {}
    /\ frames < MaxFrames
    /\ x' = 0 /\ y' = 0
    /\ IF variant = "gpu"
       THEN /\ pc' = "marshal"
            /\ inputs' = [ k \in 0 .. (W * H - 1) |->
                             [ origin |-> << 0, 0, 0 >>, direction |-> << 0, 0, 0 >> ] ]
            /\ hand' = << >>
       ELSE /\ pc' = "pixel"
            /\ UNCHANGED << inputs, hand >>
    /\ UNCHANGED << variant, dims, buffer, outcome, sinkVars, marchVars, data_buffer,
                    results, numGroups, gpu, pending, wg, kpc, kdepth, ki,
                    kiters, invoked, colorVars >>

\* window.update_with_buffer(&buffer).unwrap(): the call is issued; an Err
\* from the sink panics.
Present ==
    /\ pc = "present"
    /\ frames' = frames + 1
    /\ closedFrames' = IF ~open THEN closedFrames + 1 ELSE closedFrames
    /\ \E ok \in BOOLEAN : pc' = IF ok THEN "check" ELSE "panic"
    /\ UNCHANGED << variant, dims, x, y, buffer, outcome, open, esc, signalled,
                    marchVars, gpuVars, colorVars >>

\* The pixel loops (for y in 0..HEIGHT, for x in 0..WIDTH) move on from
\* (x, y); `again` is the loop body, `after` what follows the loops.
LoopNext(again, after) ==
    IF x + 1 < W
    THEN x' = x + 1 /\ y' = y /\ pc' = again
    ELSE IF y + 1 < H
         THEN x' = 0 /\ y' = y + 1 /\ pc' = again
         ELSE x' = 0 /\ y' = 0 /\ pc' = after

----------------------------------------------------------------------------
(* The CPU binary's per-pixel closure: the sphere tracer and the shader. *)

\* An assignment in place of the accumulation.
AdvanceAssign(dp, d) == d

\* depth += dist
Advance(dp, d) == dp + d

\* A step test that lets the loop run once more.
LoopRunsInclusive(n) == n <= MAX_STEPS

\* for _ in 0..MAX_STEPS
LoopRuns(n) == n < MAX_STEPS

\* if dist < EPSILON
IsHit(d) == d < EPSILON

\* let mut depth = EPSILON; let ray = generate_primary_ray(..)
PixelBegin ==
    /\ variant = "cpu" /\ pc = "pixel"
    /\ depth' = EPSILON /\ i' = 0 /\ dist' = 0 /\ evals' = 0 /\ sumDist' = 0
    /\ pc' = "march"
    /\ UNCHANGED << variant, dims, x, y, buffer, outcome, sinkVars, gpuVars, colorVars >>

\* One iteration of the marching loop, scene(frag_pos) evaluating to d at
\* frag_pos = ray.origin + ray.direction * depth.
MarchStep(d) ==
    /\ variant = "cpu" /\ pc = "march"
    /\ LoopRuns(i)
    /\ dist' = d
    /\ evals' = evals + 1
    /\ IF IsHit(d)
       THEN pc' = "HIT" /\ UNCHANGED << depth, i, sumDist >>
       ELSE /\ depth' = Advance(depth, d)
            /\ sumDist' = sumDist + d
            /\ i' = i + 1
            /\ pc' = "march"
    /\ UNCHANGED << variant, dims, x, y, buffer, outcome, sinkVars, gpuVars, colorVars >>

\* The loop is exhausted without a hit.
MarchExhaust ==
    /\ variant = "cpu" /\ pc = "march"
    /\ ~LoopRuns(i)
    /\ pc' = "MISS"
    /\ UNCHANGED << variant, dims, x, y, buffer, outcome, sinkVars, marchVars, gpuVars,
                    colorVars >>

\* Vector3::new(1.0, 0.0, 0.0) * cos_theta * attenuation + Vector3::new(0.04, 0.04, 0.04),
\* for cos_theta * attenuation = l / ColorScale
ShadedColor(l) ==
    << ((1000 * l) \div ColorScale) + AMBIENT,
       ((0 * l) \div ColorScale) + AMBIENT,
       ((0 * l) \div ColorScale) + AMBIENT >>

\* The hit branch: shade at frag_pos and return the packed colour.
ShadeHit ==
    /\ variant = "cpu" /\ pc = "HIT"
    /\ \E l \in FrameLights :
         buffer' = [ buffer EXCEPT ![x + y * W] = as_u32(from_vec(ShadedColor(l), ALPHA)) ]
    /\ outcome' = [ outcome EXCEPT ![x + y * W] = "HIT" ]
    /\ LoopNext("pixel", "present")
    /\ UNCHANGED << variant, dims, sinkVars, marchVars, gpuVars, colorVars >>

\* The closure falls through to 0x000000.
StoreMiss ==
    /\ variant = "cpu" /\ pc = "MISS"
    /\ buffer' = [ buffer EXCEPT ![x + y * W] = MISS_VALUE ]
    /\ outcome' = [ outcome EXCEPT ![x + y * W] = "MISS" ]
    /\ LoopNext("pixel", "present")
    /\ UNCHANGED << variant, dims, sinkVars, marchVars, gpuVars, colorVars >>

----------------------------------------------------------------------------
(* The closure in isolation: one ray, every sequence of scene distances. *)

InitTrace ==
    /\ variant = "cpu" /\ dims = << WIDTH, HEIGHT >>
    /\ pc = "pixel" /\ x = 0 /\ y = 0
    /\ buffer = [ k \in 0 .. (WIDTH * HEIGHT - 1) |-> MISS_VALUE ]
    /\ outcome = [ k \in 0 .. (WIDTH * HEIGHT - 1) |-> "none" ]
    /\ SinkInit /\ MarchIdle /\ GpuIdle /\ ColorIdle

TraceStep == \E d \in SceneDists : MarchStep(d)

NextTrace == PixelBegin \/ TraceStep \/ MarchExhaust

SpecTrace == InitTrace /\ [][NextTrace]_vars

\* The closure is straight-line code in a bounded loop: it keeps running.
FairTrace == SpecTrace /\ WF_vars(NextTrace)

----------------------------------------------------------------------------
(* The GPU binary: marshaling, compute, and the host's shading. *)

\* Vector3::new(0.0, 0.0, -10.0)
RayOrigin == << 0, 0, -100000 >>

\* Units per 1.0 of a direction component.
DirScale == 1000

\* The integer square root of n, n known to lie in lo^2 .. (hi + 1)^2 - 1.
RECURSIVE IsqrtIn(_, _, _)
IsqrtIn(n, lo, hi) ==
    IF lo = hi THEN lo
    ELSE LET mid == (lo + hi + 1) \div 2
         IN  IF mid * mid <= n THEN IsqrtIn(n, mid, hi) ELSE IsqrtIn(n, lo, mid - 1)

\* (x * x + y * y + z * z).sqrt(), squared
MagnitudeSq(v) == v[1] * v[1] + v[2] * v[2] + v[3] * v[3]

\* *self / self.magnitude(): component c of v over |v|, in units of
\* 1 / DirScale, rounded to the nearest unit.  |c| / |v| is at most 1, and
\* round(s) = (floor(2 s) + 1) div 2.
UnitComponent(c, v) ==
    LET twice == IsqrtIn((4 * c * c * DirScale * DirScale) \div MagnitudeSq(v),
                         0, 2 * DirScale)
        mag == (twice + 1) \div 2
    IN  IF c < 0 THEN -mag ELSE mag

normalize(v) == << UnitComponent(v[1], v), UnitComponent(v[2], v), UnitComponent(v[3], v) >>

\* generate_primary_ray for fov 90 (tan 45 = 1): Vector3::new(px, py, 1.0).normalize()
\* with
\*   px = (2 (x + 0.5) / W - 1) * (W / H),  py = 1 - 2 (y + 0.5) / H.
\* (px, py, 1.0) * H is a vector of integers with the same direction, so with
\* the same normalisation; the cast to f32 does not move a value rounded to
\* 1 / DirScale.
RayDirection(px, py) == normalize(<< 2 * px + 1 - W, H - 2 * py - 1, H >>)

\* gradient(pos) of the kernel at pos = o + d * t, kept symbolic
Gradient(o, d, t) == [ at |-> << o, d, t >> ]

\* inputs[x + y * WIDTH] = MarchInstruction { origin, direction }
MarshalPixel ==
    /\ variant = "gpu" /\ pc = "marshal"
    /\ inputs' = [ inputs EXCEPT ![x + y * W] =
                     [ origin |-> RayOrigin, direction |-> RayDirection(x, y) ] ]
    /\ LoopNext("marshal", "upload")
    /\ UNCHANGED << variant, dims, buffer, outcome, sinkVars, marchVars, data_buffer,
                    results, numGroups, gpu, pending, wg, kpc, kdepth, ki,
                    kiters, invoked, hand, colorVars >>

\* compute: the instance, the device, the queue, the pipeline, the buffer
\* filled from data.iter() and the descriptor set.  Each of these is
\* unwrapped: one that fails panics, before any dispatch.
Upload ==
    /\ variant = "gpu" /\ pc = "upload"
    /\ \E ok \in BOOLEAN :
         IF ok
         THEN /\ data_buffer' = [ k \in DOMAIN inputs |->
                                    [ origin |-> inputs[k].origin,
                                      dir |-> inputs[k].direction ] ]
              /\ hand' = Append(hand, "upload")
              /\ pc' = "submit"
         ELSE pc' = "panic" /\ UNCHANGED << data_buffer, hand >>
    /\ UNCHANGED << variant, dims, x, y, buffer, outcome, sinkVars, marchVars, inputs,
                    results, numGroups, gpu, pending, wg, kpc, kdepth, ki,
                    kiters, invoked, colorVars >>

\* data.len() as u32 / 64
NumGroups(len) == len \div LOCAL_SIZE_X

\* dispatch([len / 64, 1, 1]), then_execute, then_signal_fence_and_flush.
\* Building the command buffer and submitting it are unwrapped: a step that
\* fails panics, and nothing has been handed to the device.
Submit ==
    /\ variant = "gpu" /\ pc = "submit"
    /\ \E ok \in BOOLEAN :
         IF ok
         THEN /\ numGroups' = NumGroups(Cardinality(DOMAIN inputs))
              /\ pending' = 0 .. (numGroups' - 1)
              /\ gpu' = "running"
              /\ invoked' = [ k \in DOMAIN inputs |-> 0 ]
              /\ hand' = Append(hand, "dispatch")
              /\ pc' = "wait"
         ELSE pc' = "panic" /\ UNCHANGED << numGroups, pending, gpu, invoked, hand >>
    /\ UNCHANGED << variant, dims, x, y, buffer, outcome, sinkVars, marchVars, inputs,
                    data_buffer, results, wg, kpc, kdepth, ki, kiters,
                    colorVars >>

\* A wait that returns at once.
FenceReachedNoWait(g) == TRUE

\* future.wait(None) returns once the fence is signalled
FenceReached(g) == g = "done"

\* future.wait(None).unwrap(): the call blocks until the fence is signalled
\* and then returns Ok, or it returns an Err (at any time: the device is lost,
\* say) and the unwrap panics with the dispatch submitted and nothing read.
Wait ==
    /\ variant = "gpu" /\ pc = "wait"
    /\ \/ /\ FenceReached(gpu)
          /\ hand' = Append(hand, "wait")
          /\ pc' = "download"
       \/ /\ pc' = "panic"
          /\ UNCHANGED hand
    /\ UNCHANGED << variant, dims, x, y, buffer, outcome, sinkVars, marchVars, inputs,
                    data_buffer, results, numGroups, gpu, pending, wg, kpc,
                    kdepth, ki, kiters, invoked, colorVars >>

\* data_buffer.read().unwrap() and the map to MarchResult; read() fails
\* while the device still uses the buffer.
Download ==
    /\ variant = "gpu" /\ pc = "download"
    /\ IF gpu = "running"
       THEN pc' = "panic" /\ UNCHANGED << results, gpu, hand, x, y >>
       ELSE /\ results' = [ k \in DOMAIN data_buffer |->
                              [ distance |-> data_buffer[k].origin[1],
                                normal |-> data_buffer[k].dir ] ]
            /\ gpu' = "idle"
            /\ hand' = Append(hand, "download")
            /\ x' = 0 /\ y' = 0
            /\ pc' = "shade"
    /\ UNCHANGED << variant, dims, buffer, outcome, sinkVars, marchVars, inputs,
                    data_buffer, numGroups, pending, wg, kpc, kdepth, ki,
                    kiters, invoked, colorVars >>

\* An index that forgets the workgroup.
GlobalIdLocal(g, l) == l

\* gl_GlobalInvocationID.x of invocation l of workgroup g
GlobalId(g, l) == g * LOCAL_SIZE_X + l

\* The invocations of one workgroup.  An invocation reads and writes only
\* data.data[idx] of its own idx, so the invocations of a workgroup are run
\* in step: kdepth, ki and kiters hold one value per invocation.
Lanes == 0 .. (LOCAL_SIZE_X - 1)

\* Values of scene(frag_pos) across the invocations of a workgroup.
KernelDists ==
    { [ l \in Lanes |-> d ] : d \in SceneDists }
        \cup { [ l \in Lanes |-> IF l % 2 = 0 THEN 9 ELSE 30 ] }

\* The device starts any workgroup of the dispatch not yet started.
GroupStart ==
    /\ gpu = "running" /\ kpc = "off" /\ pending # {}
    /\ \E g \in pending : wg' = g /\ pending' = pending \ { g }
    /\ kpc' = "load"
    /\ UNCHANGED << variant, dims, hostVars, sinkVars, marchVars, inputs, data_buffer,
                    results, numGroups, gpu, kdepth, ki, kiters, invoked, hand,
                    colorVars >>

\* uint idx = gl_GlobalInvocationID.x; origin, direction; float depth = 0.0001
KernelLoad ==
    /\ gpu = "running" /\ kpc = "load"
    /\ kdepth' = [ l \in Lanes |-> KERNEL_DEPTH0 ]
    /\ ki' = [ l \in Lanes |-> 0 ]
    /\ kiters' = [ l \in Lanes |-> 0 ]
    /\ invoked' = [ k \in DOMAIN invoked |->
                      invoked[k] + Cardinality({ l \in Lanes : GlobalId(wg, l) = k }) ]
    /\ kpc' = "loop"
    /\ UNCHANGED << variant, dims, hostVars, sinkVars, marchVars, inputs, data_buffer,
                    results, numGroups, gpu, pending, wg, hand, colorVars >>

\* A skip test whose lower bound is the first depth.
SkipsFromDepth0(dp) == dp < KERNEL_DEPTH0 \/ dp > KERNEL_FAR

\* if (depth < 0.001 || depth > 10000.0)
Skips(dp) == dp < KERNEL_NEAR \/ dp > KERNEL_FAR

\* break in place of continue
AfterBreak(n) == KERNEL_MAX_STEPS

\* continue: on to i++
AfterContinue(n) == n + 1

\* One iteration of for (int i = 0; i < MAX_STEPS; i++), in every invocation
\* of the workgroup whose loop still runs
KernelIter ==
    /\ gpu = "running" /\ kpc = "loop"
    /\ { l \in Lanes : ki[l] < KERNEL_MAX_STEPS } # {}
    /\ LET marching == { l \in Lanes : ki[l] < KERNEL_MAX_STEPS /\ ~Skips(kdepth[l]) }
       IN  \E f \in (IF marching = {} THEN { [ l \in Lanes |-> 0 ] } ELSE KernelDists) :
             /\ kdepth' = [ l \in Lanes |->
                              IF l \in marching THEN kdepth[l] + f[l] ELSE kdepth[l] ]
             /\ ki' = [ l \in Lanes |->
                          IF ki[l] < KERNEL_MAX_STEPS
                          THEN (IF Skips(kdepth[l]) THEN AfterContinue(ki[l])
                                ELSE ki[l] + 1)
                          ELSE ki[l] ]
    /\ kiters' = [ l \in Lanes |->
                     IF ki[l] < KERNEL_MAX_STEPS THEN kiters[l] + 1 ELSE kiters[l] ]
    /\ UNCHANGED << variant, dims, hostVars, sinkVars, marchVars, inputs, data_buffer,
                    results, numGroups, gpu, pending, wg, kpc, invoked, hand,
                    colorVars >>

\* data.data[idx].origin.x = depth; data.data[idx].dir = gradient(origin + direction * depth)
KernelStore ==
    /\ gpu = "running" /\ kpc = "loop"
    /\ \A l \in Lanes : ~(ki[l] < KERNEL_MAX_STEPS)
    /\ data_buffer' =
         [ k \in DOMAIN data_buffer |->
             IF \E l \in Lanes : GlobalId(wg, l) = k
             THEN LET l == CHOOSE l \in Lanes : GlobalId(wg, l) = k
                      el == data_buffer[k]
                  IN  [ origin |-> [ el.origin EXCEPT ![1] = kdepth[l] ],
                        dir |-> Gradient(el.origin, el.dir, kdepth[l]) ]
             ELSE data_buffer[k] ]
    /\ kpc' = "off"
    /\ UNCHANGED << variant, dims, hostVars, sinkVars, marchVars, inputs, results,
                    numGroups, gpu, pending, wg, kdepth, ki, kiters, invoked, hand,
                    colorVars >>

\* Every workgroup has run: the fence is signalled.
FenceSignal ==
    /\ gpu = "running" /\ kpc = "off" /\ pending = {}
    /\ gpu' = "done"
    /\ UNCHANGED << variant, dims, hostVars, sinkVars, marchVars, inputs, data_buffer,
                    results, numGroups, pending, wg, kpc, kdepth, ki, kiters,
                    invoked, hand, colorVars >>

\* if result.distance < EPSILON as f32
HostHit(d) == d < HOST_EPSILON

\* The host's closure over (results[x + y * WIDTH], inputs[x + y * WIDTH])
ShadePixel ==
    /\ variant = "gpu" /\ pc = "shade"
    /\ LET result == results[x + y * W]
       IN  IF HostHit(result.distance)
           THEN /\ buffer' = [ buffer EXCEPT ![x + y * W] =
                                 as_u32(from_vec(<< 1000, 0, 0 >>, ALPHA)) ]
                /\ outcome' = [ outcome EXCEPT ![x + y * W] = "HIT" ]
           ELSE /\ buffer' = [ buffer EXCEPT ![x + y * W] = U32(0) ]
                /\ outcome' = [ outcome EXCEPT ![x + y * W] = "MISS" ]
    /\ LoopNext("shade", "present")
    /\ UNCHANGED << variant, dims, sinkVars, marchVars, gpuVars, colorVars >>

----------------------------------------------------------------------------
(* The two binaries. *)

\* vec![0; WIDTH * HEIGHT]
ZeroBuffer == [ k \in 0 .. (W * H - 1) |-> U32(0) ]

\* main is entered: there is no window yet.  The CPU binary has allocated its
\* buffer before it creates the window, the GPU binary allocates colors after.
Init ==
    /\ variant \in { "cpu", "gpu" }
    /\ dims \in (IF variant = "gpu" THEN GpuFrames ELSE { << WIDTH, HEIGHT >> })
    /\ pc = "start" /\ x = 0 /\ y = 0
    /\ buffer = IF variant = "cpu" THEN ZeroBuffer ELSE EmptyVec
    /\ outcome = [ k \in DOMAIN buffer |-> "none" ]
    /\ open = FALSE /\ esc = FALSE /\ frames = 0
    /\ signalled = FALSE /\ closedFrames = 0
    /\ MarchIdle /\ GpuIdle /\ ColorIdle

\* Window::new(..).unwrap_or_else(|e| panic!("{}", e)): the window is open, or
\* its creation fails and main panics before the loop is entered.  Then
\* time = Instant::now(), and in the GPU binary colors = vec![0; WIDTH * HEIGHT].
WindowNew ==
    /\ pc = "start"
    /\ \E ok \in BOOLEAN :
         IF ok
         THEN /\ open' = TRUE
              /\ buffer' = ZeroBuffer
              /\ outcome' = [ k \in DOMAIN ZeroBuffer |-> "none" ]
              /\ pc' = "check"
         ELSE pc' = "panic" /\ UNCHANGED << open, buffer, outcome >>
    /\ UNCHANGED << variant, dims, x, y, esc, frames, signalled, closedFrames,
                    marchVars, gpuVars, colorVars >>

FrameStep == \E d \in FrameDists : MarchStep(d)

Next ==
    \/ WindowNew
    \/ SinkClose \/ KeyDown \/ KeyUp
    \/ LoopCheck \/ TimerSpin \/ FrameStart \/ Present
    \/ PixelBegin \/ FrameStep \/ MarchExhaust \/ ShadeHit \/ StoreMiss
    \/ MarshalPixel \/ Upload \/ Submit \/ Wait \/ Download \/ ShadePixel
    \/ GroupStart \/ KernelLoad \/ KernelIter \/ KernelStore \/ FenceSignal

Spec == Init /\ [][Next]_vars

----------------------------------------------------------------------------
(* Properties *)

\* 0xFFFF0000
RedOpaque == [ hi |-> 65535, lo |-> 0 ]

\* C3: as_u32 puts blue in bits 0..7, green in bits 8..15, red in bits 16..23
\* and alpha in bits 24..31, so the word is b + (g << 8) + (r << 16) + (a << 24)
\* and every byte is read back from its own field; (1.0, 0.0, 0.0) with alpha
\* 255 packs to 0xFFFF0000.
C3_Packing ==
    cpc = "packed" =>
        /\ cword.lo = c8.b + 256 * c8.g
        /\ cword.hi = c8.r + 256 * c8.a
        /\ ByteOf(cword, 0) = c8.b /\ ByteOf(cword, 1) = c8.g
        /\ ByteOf(cword, 2) = c8.r /\ ByteOf(cword, 3) = c8.a
        /\ (cvec = << 1000, 0, 0 >> /\ calpha = 255 => cword = RedOpaque)

C3_Witness ==
    cpc = "packed" /\ cvec = << 1000, 0, 0 >> /\ calpha = 255 /\ cword = RedOpaque

Channel(c, k) == IF k = 1 THEN c.r ELSE IF k = 2 THEN c.g ELSE c.b

\* C8, as stated: a channel whose scaled value lies outside 0..255 is not
\* clamped, it keeps the low byte of the truncated value.
C8_Wraps ==
    cpc # "in" =>
        \A k \in 1 .. 3 :
            LET t == TruncDiv(cvec[k] * 255, ColorScale)
            IN  (t < 0 \/ t > 255) => Channel(c8, k) = t % 256

\* C8, amended: from_vec takes component * 255 truncated toward zero when that
\* lies in 0..255; a scaled value of 256 or more gives 255 and a scaled value
\* below 0 gives 0 (the conversion saturates, it does not wrap).
C8_Saturates ==
    cpc # "in" =>
        \A k \in 1 .. 3 :
            LET v == cvec[k] * 255
                byte == Channel(c8, k)
            IN  /\ byte \in 0 .. 255
                /\ v >= 256 * ColorScale => byte = 255
                /\ v < ColorScale => byte = 0
                /\ (v >= 0 /\ v < 256 * ColorScale) =>
                       (byte * ColorScale <= v /\ v < (byte + 1) * ColorScale)
                /\ c8.a = calpha

C8_Witness ==
    /\ cpc = "vec"
    /\ cvec = << 2000, -300, 500 >>
    /\ c8.r = 255 /\ c8.g = 0 /\ c8.b = 127

\* C1: the marching loop evaluates the scene at most MAX_STEPS = 50 times and
\* then ends in HIT or in MISS; it ends in HIT only on a distance below
\* EPSILON, so a ray that never sees one ends in MISS, after exactly 50
\* evaluations.
C1_Terminates ==
    /\ [](/\ evals <= 50
          /\ (pc = "MISS" => evals = 50)
          /\ (pc = "HIT" => dist < EPSILON)
          /\ (pc = "march" /\ i > 0 => dist >= EPSILON))
    /\ <>(pc \in { "HIT", "MISS" })

C1_Witness == pc = "MISS" /\ evals = 50 /\ dist >= EPSILON

\* C6: depth starts at EPSILON; a step that sees a distance below EPSILON ends
\* in HIT and leaves depth alone, any other step adds the distance to depth.
\* So depth is EPSILON plus the sum of the distances seen without a hit, also
\* at the hit.
C6_StepRule ==
    /\ [](/\ (pc = "march" /\ i = 0 => depth = 10 /\ sumDist = 0)
          /\ (pc \in { "march", "HIT", "MISS" } => depth = 10 + sumDist)
          /\ (pc \in { "march", "MISS" } => evals = i)
          /\ (pc = "HIT" => evals = i + 1))
    /\ [][ (pc = "march" /\ evals' = evals + 1) =>
               \/ dist' < 10 /\ pc' = "HIT" /\ depth' = depth /\ i' = i
               \/ dist' >= 10 /\ pc' = "march" /\ depth' = depth + dist'
                    /\ i' = i + 1 ]_vars

C6_Witness ==
    pc = "HIT" /\ i = 3 /\ sumDist = 110 /\ depth = 120 /\ dist = 9

\* C2: a pixel written after a MISS holds 0x00000000; a pixel written after a
\* HIT has alpha byte 255 and so differs from 0x00000000.
C2_MissValue ==
    \A k \in DOMAIN buffer :
        /\ outcome[k] = "MISS" => buffer[k] = [ hi |-> 0, lo |-> 0 ]
        /\ outcome[k] = "HIT" =>
               /\ ByteOf(buffer[k], 3) = 255
               /\ buffer[k] # [ hi |-> 0, lo |-> 0 ]

C2_Witness ==
    /\ variant = "cpu" /\ pc = "present"
    /\ outcome[0] = "HIT" /\ outcome[1] = "MISS"
    /\ buffer[0] # [ hi |-> 0, lo |-> 0 ] /\ buffer[1] = [ hi |-> 0, lo |-> 0 ]

\* C4, as stated: once the sink has been closed or escape has been down, no
\* update_with_buffer call is issued any more.
C4_NoLaterFrame == [][ signalled => frames' = frames ]_vars

\* C4, amended: the signal is acted on where the loop condition is evaluated:
\* evaluated with the sink closed or escape down, main leaves the loop, and
\* otherwise it goes on.  A frame begun before the window was closed is still
\* presented, so at most one update_with_buffer call is issued on a closed
\* window.
C4_StopsAtCheck ==
    /\ [](closedFrames <= 1)
    /\ [](pc = "exit" => signalled)
    /\ [][ (pc = "check" /\ pc' # "check") =>
               /\ frames' = frames
               /\ (~open \/ esc) => pc' = "exit"
               /\ (open /\ ~esc) => pc' = "timer" ]_vars

C4_Witness == pc = "exit" /\ closedFrames = 1 /\ ~open

Handoff == << "upload", "dispatch", "wait", "download" >>

\* C5: a frame of the GPU binary does upload, dispatch, fence wait, download
\* once each and in this order (a frame cut short by a panic has done a
\* prefix of them); while a dispatch is in flight the host sits in the fence
\* wait (it neither polls the sink nor prepares another dispatch) unless
\* the process has panicked, and the buffer is read back only once every
\* workgroup has run.
C5_Handoff ==
    variant = "gpu" =>
        /\ Len(hand) <= 4 /\ hand = SubSeq(Handoff, 1, Len(hand))
        /\ (pc \in { "shade", "present" } => hand = Handoff)
        /\ (gpu = "running" =>
               pc \in { "wait", "panic" } /\ hand = << "upload", "dispatch" >>)
        /\ (pc = "download" => gpu = "done" /\ pending = {} /\ kpc = "off")
        /\ (pc \in { "check", "timer", "marshal", "upload", "submit", "shade",
                     "present", "exit" } => gpu = "idle")

C5_Witness ==
    /\ variant = "gpu" /\ frames = 1 /\ pc = "download"
    /\ gpu = "done" /\ hand = << "upload", "dispatch", "wait" >>

\* C7: the kernel's loop has no early exit.  An iteration at a depth outside
\* [0.001, 10000] leaves depth alone and the loop goes on to the next
\* iteration; an iteration inside the range adds a scene distance; the
\* element's distance is written after exactly 50 iterations and is the depth
\* reached.
C7_NoEarlyExit ==
    /\ [](kpc = "loop" =>
            \A l \in Lanes : kiters[l] = ki[l] /\ ki[l] <= 50)
    /\ [][ (kpc = "loop" /\ kpc' = "loop" /\ kiters' # kiters) =>
               \A l \in Lanes :
                   /\ kiters'[l] = kiters[l] + 1
                   /\ (kdepth[l] < 10 \/ kdepth[l] > 100000000) =>
                          (kdepth'[l] = kdepth[l] /\ ki'[l] = ki[l] + 1)
                   /\ ~(kdepth[l] < 10 \/ kdepth[l] > 100000000) =>
                          ((kdepth'[l] - kdepth[l]) \in SceneDists
                             /\ ki'[l] = ki[l] + 1) ]_vars
    /\ [][ (kpc = "loop" /\ kpc' = "off") =>
               \A l \in Lanes :
                   /\ kiters[l] = 50
                   /\ data_buffer'[wg * 64 + l].origin[1] = kdepth[l] ]_vars

C7_Witness ==
    /\ gpu = "running" /\ kpc = "off" /\ DOMAIN kiters # {}
    /\ \A l \in Lanes : kiters[l] = 50 /\ data_buffer[wg * 64 + l].origin[1] = kdepth[l]

\* C9: compute returns one result per instruction at the instruction's index,
\* x + y * WIDTH for pixel (x, y).  len / 64 workgroups are dispatched.  When
\* len is a multiple of 64 every element is processed by exactly one
\* invocation; otherwise each of the first (len / 64) * 64 elements is
\* processed by exactly one invocation and the len mod 64 elements after them
\* by none (they come back as uploaded).
C9_OnePerInstruction ==
    (variant = "gpu" /\ pc \in { "shade", "present" }) =>
        LET len == W * H
        IN  /\ DOMAIN results = 0 .. (len - 1)
            /\ DOMAIN inputs = DOMAIN results
            /\ numGroups = len \div 64
            /\ (len % 64 = 0 => \A k \in 0 .. (len - 1) : invoked[k] = 1)
            /\ (len % 64 # 0 =>
                   Cardinality({ k \in 0 .. (len - 1) : invoked[k] = 0 }) = len % 64)
            /\ \A px \in 0 .. (W - 1) : \A py \in 0 .. (H - 1) :
                 LET k == px + py * W
                     direction == RayDirection(px, py)
                 IN  /\ inputs[k] = [ origin |-> RayOrigin, direction |-> direction ]
                     /\ IF k < (len \div 64) * 64
                        THEN /\ invoked[k] = 1
                             /\ results[k].normal =
                                  Gradient(RayOrigin, direction, results[k].distance)
                        ELSE /\ invoked[k] = 0
                             /\ results[k].distance = inputs[k].origin[1]
                             /\ results[k].normal = inputs[k].direction

\* A frame of 10 * 7 = 70 elements has come back: one workgroup was
\* dispatched, elements 0 .. 63 were processed once each (element 11 is pixel
\* (1, 1)) and elements 64 .. 69 by no invocation.
C9_Witness ==
    /\ variant = "gpu" /\ pc = "present"
    /\ dims = << 10, 7 >> /\ numGroups = 1
    /\ DOMAIN results = 0 .. 69
    /\ \A k \in 0 .. 63 : invoked[k] = 1 /\ results[k].distance = KERNEL_DEPTH0
    /\ \A k \in 64 .. 69 :
         /\ invoked[k] = 0
         /\ results[k].distance = 0
         /\ results[k].normal = inputs[k].direction
    /\ inputs[11].direction = RayDirection(1, 1)
    /\ results[11].normal = Gradient(RayOrigin, RayDirection(1, 1), KERNEL_DEPTH0)

\* C10: the kernel starts at depth 0.0001, below the 0.001 of its skip test,
\* so every iteration is skipped and every element processed returns distance
\* 0.0001; the host takes that for a hit, so every pixel of every frame is
\* 0xFFFF0000 and none is the miss value.
C10_AllRed ==
    variant = "gpu" =>
        /\ (kpc = "loop" => \A l \in Lanes : kdepth[l] = 1)
        /\ \A k \in DOMAIN results :
               k < numGroups * 64 => results[k].distance = 1
        /\ \A k \in DOMAIN buffer :
               /\ outcome[k] # "MISS"
               /\ outcome[k] = "HIT" => buffer[k] = RedOpaque

C10_Witness ==
    /\ variant = "gpu" /\ dims = << GPU_WIDTH, GPU_HEIGHT >>
    /\ pc = "present" /\ frames = 1
    /\ \A k \in DOMAIN buffer : outcome[k] = "HIT" /\ buffer[k] = RedOpaque
    /\ \A k \in DOMAIN results : results[k].distance = 1

====
